---- MODULE Spec2Model ----
(***************************************************************************)
(* A model of pyaugmecon's MOOP class (src/pyaugmecon.py): the constructor *)
(* pipeline  nadir check -> create_payoff_table -> find_objfun_range ->    *)
(* convert_opt_prob -> discover_pareto -> find_unique_sols.                *)
(*                                                                         *)
(* The Pyomo model and the solver are external.  The base model is a       *)
(* finite list of alternatives, each given by its vector of objective      *)
(* values; solve() returns the first alternative (in list order) among     *)
(* those that optimise the active objective over the feasible ones.        *)
(* Reals are exact rationals <<numerator, denominator>>.                   *)
(***************************************************************************)
EXTENDS Integers, Sequences, FiniteSets, TLC

----------------------------------------------------------------------------
(* Exact rational arithmetic                                               *)

Abs(n) == IF n < 0 THEN -n ELSE n

RECURSIVE GCD(_, _)
GCD(a, b) == IF b = 0 THEN a ELSE GCD(b, a % b)

Reduce(n, d, g) == << n \div g, d \div g >>

\* n/d in lowest terms with a positive denominator (d # 0)
Rat(n, d) == IF d < 0 THEN Reduce(-n, -d, GCD(Abs(n), -d)) ELSE Reduce(n, d, GCD(Abs(n), d))

R(k) == << k, 1 >>

AddOver(x, y, g) == Rat(x[1] * (y[2] \div g) + y[1] * (x[2] \div g), (x[2] \div g) * y[2])

RAdd(x, y) == AddOver(x, y, GCD(x[2], y[2]))

RNeg(x) == << -x[1], x[2] >>

RSub(x, y) == RAdd(x, RNeg(y))

MulOver(x, y, g, h) == Rat((x[1] \div g) * (y[1] \div h), (x[2] \div h) * (y[2] \div g))

RMul(x, y) == MulOver(x, y, GCD(Abs(x[1]), y[2]), GCD(Abs(y[1]), x[2]))

\* x / y, y # 0
RDiv(x, y) == RMul(x, IF y[1] < 0 THEN << -y[2], -y[1] >> ELSE << y[2], y[1] >>)

\* x < y and x <= y, by the sign of x - y over the common denominator
RLt(x, y) == x[1] * (y[2] \div GCD(x[2], y[2])) < y[1] * (x[2] \div GCD(x[2], y[2]))

RLe(x, y) == x[1] * (y[2] \div GCD(x[2], y[2])) <= y[1] * (x[2] \div GCD(x[2], y[2]))

\* Python's int(x): truncation toward zero
Trunc(x) == IF x[1] >= 0 THEN x[1] \div x[2] ELSE -((-x[1]) \div x[2])

RECURSIVE Pow10(_)
Pow10(n) == IF n = 0 THEN 1 ELSE 10 * Pow10(n - 1)

\* the integer nearest to n/d (d > 0) given q = floor(n/d), ties to even
HalfEvenFrom(n, d, q) ==
    IF 2 * (n - q * d) < d THEN q
    ELSE IF 2 * (n - q * d) > d THEN q + 1
    ELSE IF q % 2 = 0 THEN q ELSE q + 1

HalfEven(n, d) == HalfEvenFrom(n, d, n \div d)

RoundAt(x, scale) == Rat(HalfEven(x[1] * scale, x[2]), scale)

\* Python's round(x, digits).  A value with at most four decimals is its
\* own rounding for digits >= 4; everything else is rounded at 10^digits.
Round(x, digits) ==
    IF digits >= 4 /\ 10000 % x[2] = 0 THEN x ELSE RoundAt(x, Pow10(digits))

----------------------------------------------------------------------------
(* Bounds of the model and the inputs it enumerates                        *)

\* grid_points ranges over 2..MaxG
MaxG == 3

\* the injected solver fault hits one of the first MaxFaultAt solve calls
MaxFaultAt == 12

\* supplied nadir lists have 0..MaxNadirLen entries
MaxNadirLen == 2

H(n) == Rat(n, 2)

\* The base models: num |-> len(model.obj_list), alts |-> the alternatives
\* as vectors of objective values, in the solver's order of preference
\* among equally good ones.
BaseModels ==
    { [num |-> 2, alts |-> << <<R(12), R(0)>>, <<R(6), R(6)>>, <<R(0), R(12)>> >>],
      [num |-> 2, alts |-> << <<R(12), R(0)>>, <<R(0), H(13)>> >>],
      [num |-> 2, alts |-> << <<R(6), R(6)>> >>],
      [num |-> 2, alts |-> << >>],
      [num |-> 3, alts |-> << <<R(12), R(0), R(6)>>, <<R(0), R(12), R(6)>>,
                              <<R(6), R(6), R(12)>> >>],
      [num |-> 3, alts |-> << <<R(12), R(0), R(0)>>, <<R(6), R(12), R(12)>>,
                              <<R(0), R(12), H(25)>> >>],
      [num |-> 4, alts |-> << <<R(12), R(0), R(0), R(6)>>, <<R(0), R(12), R(6), R(0)>>,
                              <<R(6), R(6), R(12), R(12)>> >>] }

NadirValues == { R(-6), H(37) }

NoNadir == [given |-> FALSE, pts |-> << >>]

NadirChoices ==
    { NoNadir } \cup
    { [given |-> TRUE, pts |-> [n \in 1..len |-> v]] :
          len \in 0..MaxNadirLen, v \in NadirValues }

NoFault == [at |-> 0, kind |-> "none"]

\* the solver's behaviour on its at-th call: a non-optimal termination
\* that loads no solution, or an exception out of opt.solve
FaultPlans ==
    { NoFault } \cup
    { [at |-> n, kind |-> kd] : n \in 1..MaxFaultAt, kd \in {"nonoptimal", "raise"} }

----------------------------------------------------------------------------
VARIABLES
    pc, error,
    alts, sense, num_objfun, g_points, nadir_points, early_exit,
    bypass_coefficient, fault,
    active, aux_con, vals, Slack, model_e, augmented, result, nsolve,
    solve_log,
    payoff_table, ideal_point, pi, pj,
    obj_range, e,
    cp, k, bypass_jump, models_solved, flag, pareto_sols_temp,
    entry, unique_pareto_sols, exports

inputs == << alts, sense, num_objfun, g_points, nadir_points, early_exit,
             bypass_coefficient, fault >>

modelState == << active, aux_con, vals, Slack, model_e, augmented, result, nsolve,
                solve_log >>

payoffState == << payoff_table, ideal_point, pi, pj >>

gridState == << obj_range, e >>

explorerState == << cp, k, bypass_jump, models_solved, flag, pareto_sols_temp >>

vars == << pc, error, inputs, modelState, payoffState, gridState,
           explorerState, entry, unique_pareto_sols, exports >>

----------------------------------------------------------------------------
(* The Pyomo model and the solver behind solve_model                       *)

\* eps = 10e-3, as EpsNum / EpsDen
EpsNum == 1

EpsDen == 100

eps == Rat(EpsNum, EpsDen)

\* np.inf, the initial content of the payoff table
Inf == << 1, 0 >>

NoAux == [on |-> FALSE, obj |-> 0, val |-> R(0)]

NotLoaded == [loaded |-> FALSE, v |-> << >>]

Loaded(v) == [loaded |-> TRUE, v |-> v]

\* sum over o = 1..n of eps * 10^(-(o-1)) * Slack[o+1] / obj_range[o-1]:
\* the terms convert_opt_prob adds to obj_list[1].expr
RECURSIVE PenaltyAdded(_, _, _)
PenaltyAdded(s, rng, n) ==
    IF n = 0 THEN R(0)
    ELSE RAdd(PenaltyAdded(s, rng, n - 1),
              RMul(eps, RDiv(RMul(Rat(1, Pow10(n - 1)), s[n]), R(rng[n]))))

\* sum over o1 in model.Os of Slack[o1] / obj_range[o1-2]: what
\* discover_pareto multiplies by eps and subtracts when it records
RECURSIVE SlackOverRange(_, _, _)
SlackOverRange(s, rng, n) ==
    IF n = 0 THEN R(0)
    ELSE RAdd(SlackOverRange(s, rng, n - 1), RDiv(s[n], R(rng[n])))

\* model.obj_list[j](): the value of objective j at the loaded solution,
\* objective 1 carrying the slack terms once it has been augmented
ObjValue(j, x, s, aug, rng) ==
    IF j = 1 /\ aug
    THEN RAdd(x[1], PenaltyAdded(s, rng, Len(rng)))
    ELSE x[j]

Better(sns, a, b) == IF sns = "maximize" THEN RLt(b, a) ELSE RLt(a, b)

HasZeroRange(rng) == \E o \in DOMAIN rng : rng[o] = 0

\* the Slack values that satisfy obj[o+1] - Slack[o+1] = me[o] at x
Slacks(x, me) == [o \in 1..Len(me) |-> RSub(x[o + 1], me[o])]

\* x meets the auxiliary constraint and, once the model is augmented, the
\* constraints of con_list with Slack >= 0
IsFeasible(x, aux, aug, me) ==
    /\ aux.on => x[aux.obj] = aux.val
    /\ aug => \A o \in 1..Len(me) : RLe(me[o], x[o + 1])

FeasibleSet(aux, aug, me) ==
    { m \in 1..Len(alts) : IsFeasible(alts[m], aux, aug, me) }

\* the active objective j at every alternative
Values(j, aug, me, rng) ==
    [m \in 1..Len(alts) |->
        ObjValue(j, alts[m], IF aug THEN Slacks(alts[m], me) ELSE << >>, aug, rng)]

\* the first of the feasible alternatives with the best value
BestOf(F, val) ==
    CHOOSE m \in F :
        /\ \A o \in F : ~Better(sense, val[o], val[m])
        /\ \A o \in F : o < m => Better(sense, val[m], val[o])

Optimum(m, aug, me) ==
    [raised |-> FALSE, status |-> "optimal", x |-> alts[m],
     s |-> IF aug THEN Slacks(alts[m], me) ELSE << >>]

NoSolution(raised, status) ==
    [raised |-> raised, status |-> status, x |-> << >>, s |-> << >>]

SolveOver(F, j, aug, me, rng) ==
    IF F = {} THEN NoSolution(FALSE, "infeasible")
    ELSE Optimum(BestOf(F, Values(j, aug, me, rng)), aug, me)

\* opt.solve(self.model) on its n-th call, for the model with objectives
\* act active, auxiliary constraint aux, and (once augmented) the
\* constraints obj[o+1] - Slack[o+1] = me[o], Slack >= 0.  The call raises
\* when the model does not have exactly one active objective, when its
\* objective divides by a zero range, or when the fault plan says so.
SolveModel(act, aux, aug, me, rng, n) ==
    IF Cardinality(act) # 1 \/ (fault.at = n /\ fault.kind = "raise")
       \/ (aug /\ HasZeroRange(rng))
    THEN NoSolution(TRUE, "error")
    ELSE IF fault.at = n /\ fault.kind = "nonoptimal"
    THEN NoSolution(FALSE, "other")
    ELSE SolveOver(FeasibleSet(aux, aug, me), CHOOSE a \in act : TRUE, aug, me, rng)

\* activate_objfun and deactivate_objfun on the set of active objectives
Activate(act, objfun_index) == act \cup {objfun_index}

\* the objective left active
DeactivateNothing(act, objfun_index) == act

Deactivate(act, objfun_index) == act \ {objfun_index}

\* what one call of solve_model saw and left: the stage and the place of
\* the call (payoff entry <<i, j>>, or grid index c at position pos of
\* self.cp), the objectives active and the auxiliary constraint present
\* during the call, its termination status ("error" when it raised), and
\* the variable and Slack values on the model after it
Solved(stage, at, pos, act, aux, out, vals1, slack1) ==
    [stage |-> stage, at |-> at, pos |-> pos, active |-> act, aux |-> aux,
     status |-> out.status, x |-> vals1, s |-> slack1]

\* the variable values after a solve: loaded only from an optimal one
LoadVals(old, out) == IF out.status = "optimal" THEN Loaded(out.x) ELSE old

LoadSlack(old, out) == IF out.status = "optimal" THEN Loaded(out.s) ELSE old

----------------------------------------------------------------------------
(* __init__                                                                *)

Init ==
    /\ \E bm \in BaseModels :
          /\ alts = bm.alts
          /\ num_objfun = bm.num
    /\ sense \in {"maximize", "minimize"}
    /\ g_points \in 2..MaxG
    /\ nadir_points \in NadirChoices
    /\ early_exit \in BOOLEAN
    /\ bypass_coefficient \in BOOLEAN
    /\ fault \in FaultPlans
    /\ pc = "init"
    /\ error = "none"
    /\ active = {}
    /\ aux_con = NoAux
    /\ vals = NotLoaded
    /\ Slack = NotLoaded
    /\ model_e = << >>
    /\ augmented = FALSE
    /\ result = "none"
    /\ nsolve = 0
    /\ solve_log = << >>
    /\ payoff_table = << >>
    /\ ideal_point = << >>
    /\ pi = 0
    /\ pj = 0
    /\ obj_range = << >>
    /\ e = << >>
    /\ cp = << >>
    /\ k = 0
    /\ bypass_jump = 0
    /\ models_solved = 0
    /\ flag = << >>
    /\ pareto_sols_temp = << >>
    /\ entry = NotLoaded
    /\ unique_pareto_sols = {}
    /\ exports = 0

\* the length compared with p instead of p - 1
NadirMismatchOffByOne(np, p) == np.given /\ Len(np.pts) # p

\* the check of lines 53-55
NadirMismatch(np, p) == np.given /\ Len(np.pts) # p - 1

\* lines 40-57 and 75-77: read the options, check the nadir points, enter
\* create_payoff_table
Construct ==
    /\ pc = "init"
    /\ IF NadirMismatch(nadir_points, num_objfun)
       THEN /\ pc' = "error"
            /\ error' = "Exception: Too many or too few nadir points provided"
            /\ UNCHANGED payoffState
       ELSE /\ pc' = "payoff_diag"
            /\ error' = error
            /\ payoff_table' = [i \in 1..num_objfun |-> [j \in 1..num_objfun |-> Inf]]
            /\ ideal_point' = [i \in 1..num_objfun |-> R(0)]
            /\ pi' = 0
            /\ pj' = 0
    /\ UNCHANGED << inputs, modelState, gridState, explorerState, entry,
                    unique_pareto_sols, exports >>

----------------------------------------------------------------------------
(* create_payoff_table                                                     *)

SetEntry(tbl, i, j, v) == [tbl EXCEPT ![i + 1][j + 1] = v]

\* the inner loop restarted at column 1 instead of column 0
AdvSkippingFirstColumn(i, j) ==
    IF j + 1 < num_objfun THEN << i, j + 1 >> ELSE << i + 1, 1 >>

\* the next (i, j) of the nested loops of lines 94-95 with i # j
Adv(i, j) == IF j + 1 < num_objfun THEN << i, j + 1 >> ELSE << i + 1, 0 >>

NextOff(i, j) ==
    IF Adv(i, j)[1] < num_objfun /\ Adv(i, j)[1] = Adv(i, j)[2]
    THEN Adv(Adv(i, j)[1], Adv(i, j)[2])
    ELSE Adv(i, j)

\* the exits of a payoff-table solve that raise: opt.solve itself, or
\* obj_list[jIn]() on variables that never received a value
PayoffRaises(out, vals1) == out.raised \/ ~vals1.loaded

PayoffError(out) == IF out.raised THEN "SolverError" ELSE "ValueError"

\* lines 87-91 once the solve of line 88 has returned out
PayoffDiagOn(jIn, out, vals1) ==
    /\ nsolve' = nsolve + 1
    /\ result' = IF out.raised THEN result ELSE out.status
    /\ vals' = vals1
    /\ solve_log' = Append(solve_log,
           Solved("diag", << pi, pi >>, 0, Activate(active, jIn), aux_con, out,
                  vals1, Slack))
    /\ IF PayoffRaises(out, vals1)
       THEN /\ pc' = "error"
            /\ error' = PayoffError(out)
            /\ active' = Activate(active, jIn)
            /\ UNCHANGED payoffState
       ELSE /\ payoff_table' = SetEntry(payoff_table, pi, pi, ObjValue(jIn, vals1.v, Slack.v, augmented, obj_range))
            /\ active' = Deactivate(Activate(active, jIn), jIn)
            /\ ideal_point' = [ideal_point EXCEPT
                                  ![pi + 1] = ObjValue(jIn, vals1.v, Slack.v, augmented, obj_range)]
            /\ error' = error
            /\ pi' = IF pi + 1 < num_objfun THEN pi + 1 ELSE 0
            /\ pj' = IF pi + 1 < num_objfun THEN pj ELSE 1
            /\ pc' = IF pi + 1 < num_objfun THEN pc ELSE "payoff_offdiag"

PayoffDiagSolved(jIn, out) == PayoffDiagOn(jIn, out, LoadVals(vals, out))

\* one pass of the body of lines 86-91 (i = j = pi)
PayoffDiag ==
    /\ pc = "payoff_diag"
    /\ PayoffDiagSolved(pi + 1,
           SolveModel(Activate(active, pi + 1), aux_con, augmented, model_e,
                      obj_range, nsolve + 1))
    /\ UNCHANGED << inputs, aux_con, Slack, model_e, augmented, gridState,
                    explorerState, entry, unique_pareto_sols, exports >>

\* the constraint written on the objective of the column
AuxConOnColumn(i) == [on |-> TRUE, obj |-> pj + 1, val |-> payoff_table[pj + 1][pj + 1]]

\* the constraint of lines 101-103
AuxCon(i) == [on |-> TRUE, obj |-> i + 1, val |-> payoff_table[i + 1][i + 1]]

\* lines 105-108 once the solve of line 104 has returned out
PayoffOffDiagOn(jIn, out, vals1, nxt) ==
    /\ nsolve' = nsolve + 1
    /\ result' = IF out.raised THEN result ELSE out.status
    /\ vals' = vals1
    /\ solve_log' = Append(solve_log,
           Solved("offdiag", << pi, pj >>, 0, Activate(active, jIn), AuxCon(pi),
                  out, vals1, Slack))
    /\ IF PayoffRaises(out, vals1)
       THEN /\ pc' = "error"
            /\ error' = PayoffError(out)
            /\ active' = Activate(active, jIn)
            /\ aux_con' = AuxCon(pi)
            /\ UNCHANGED payoffState
       ELSE /\ payoff_table' = SetEntry(payoff_table, pi, pj,
                        Round(ObjValue(jIn, vals1.v, Slack.v, augmented, obj_range), 10))
            /\ active' = Deactivate(Activate(active, jIn), jIn)
            /\ aux_con' = NoAux
            /\ error' = error
            /\ ideal_point' = ideal_point
            /\ pi' = nxt[1]
            /\ pj' = nxt[2]
            /\ pc' = IF nxt[1] < num_objfun THEN pc ELSE "find_objfun_range"

PayoffOffDiagSolved(jIn, out) ==
    PayoffOffDiagOn(jIn, out, LoadVals(vals, out), NextOff(pi, pj))

\* one pass of the body of lines 99-108 (i = pi, j = pj, i # j)
PayoffOffDiag ==
    /\ pc = "payoff_offdiag"
    /\ PayoffOffDiagSolved(pj + 1,
           SolveModel(Activate(active, pj + 1), AuxCon(pi), augmented, model_e,
                      obj_range, nsolve + 1))
    /\ UNCHANGED << inputs, Slack, model_e, augmented, gridState,
                    explorerState, entry, unique_pareto_sols, exports >>

----------------------------------------------------------------------------
(* find_objfun_range                                                       *)

RMin(S) == CHOOSE x \in S : \A y \in S : RLe(x, y)

RMax(S) == CHOOSE x \in S : \A y \in S : RLe(y, x)

Column(tbl, j) == { tbl[r][j] : r \in DOMAIN tbl }

\* self.min of lines 119-122 for secondary objective i (1..p-1)
ChosenMin(np, tbl, i) ==
    IF np.given /\ Len(np.pts) > 0 THEN np.pts[i] ELSE RMin(Column(tbl, i + 1))

\* lines 124-125: the range is stored into an integer array
ObjRange(np, tbl, i) ==
    Trunc(RSub(RMax(Column(tbl, i + 1)), ChosenMin(np, tbl, i)))

\* line 128-129: self.min + j * (self.obj_range[i - 1] / (self.g_points - 1))
Breakpoint(min, rng, j, g) == RAdd(min, RMul(R(j), Rat(rng, g - 1)))

\* lines 127-129, row i - 1 of self.e (column j of the code is entry j + 1)
GridRow(np, tbl, i, g) ==
    [jj \in 1..g |-> Breakpoint(ChosenMin(np, tbl, i), ObjRange(np, tbl, i), jj - 1, g)]

FindObjfunRange ==
    /\ pc = "find_objfun_range"
    /\ obj_range' = [i \in 1..(num_objfun - 1) |->
                        ObjRange(nadir_points, payoff_table, i)]
    /\ e' = [i \in 1..(num_objfun - 1) |->
                GridRow(nadir_points, payoff_table, i, g_points)]
    /\ pc' = "convert_opt_prob"
    /\ UNCHANGED << error, inputs, modelState, payoffState, explorerState,
                    entry, unique_pareto_sols, exports >>

----------------------------------------------------------------------------
(* convert_opt_prob                                                        *)

\* Lines 134-165.  Dividing a Pyomo expression by a zero range either
\* raises ZeroDivisionError here or leaves an expression that the solver
\* interface cannot compile (SolveModel then raises).
ConvertOptProb ==
    /\ pc = "convert_opt_prob"
    /\ \/ /\ HasZeroRange(obj_range)
          /\ pc' = "error"
          /\ error' = "ZeroDivisionError"
          /\ UNCHANGED << Slack, model_e, augmented >>
       \/ /\ pc' = "discover_pareto"
          /\ error' = error
          /\ augmented' = TRUE
          /\ Slack' = NotLoaded
          /\ model_e' = << >>
    /\ UNCHANGED << inputs, active, aux_con, vals, result, nsolve, solve_log,
                    payoffState, gridState, explorerState, entry,
                    unique_pareto_sols, exports >>

----------------------------------------------------------------------------
(* discover_pareto                                                         *)

Min(a, b) == IF a < b THEN a ELSE b

\* itertools.product of n copies of (0, ..., g-1), in its order
RECURSIVE Product(_, _)
Product(n, g) ==
    IF n = 0 THEN << << >> >>
    ELSE LET pre == Product(n - 1, g)
         IN  [q \in 1..(Len(pre) * g) |->
                 Append(pre[((q - 1) \div g) + 1], (q - 1) % g)]

\* the tuple left in the order of itertools.product
Unreversed(t) == t

\* i[::-1]
Reverse(t) == [m \in 1..Len(t) |-> t[Len(t) + 1 - m]]

\* self.cp of lines 169-172; component m of the code is entry m + 1
GridIndices(p, g) ==
    LET prod == Product(p - 1, g)
    IN  [q \in 1..Len(prod) |-> Reverse(prod[q])]

\* the lookup made with the first two components of c
FlagGetByPrefix(f, c) ==
    IF Len(c) >= 2 /\ << c[1], c[2] >> \in DOMAIN f THEN f[<< c[1], c[2] >>] ELSE 0

\* self.flag.get(c, 0)
FlagGet(f, c) == IF c \in DOMAIN f THEN f[c] ELSE 0

\* self.flag[key] = v for every key of keys
FlagSet(f, keys, v) ==
    IF keys = {} THEN f
    ELSE [key \in (DOMAIN f) \cup keys |-> IF key \in keys THEN v ELSE f[key]]

\* lines 178-181
SkipFromFlag(f, c, bj, g) ==
    IF FlagGet(f, c) # 0 /\ bj = 0 THEN Min(FlagGet(f, c), g - c[1]) ELSE bj

\* the count taken from the flag without the bound until_end
SkipAfterSolveUnbounded(f, c, bj, g) ==
    IF FlagGet(f, c) # 0 /\ bj = 0 THEN FlagGet(f, c) - 1 ELSE bj

\* lines 226-229
SkipAfterSolve(f, c, bj, g) ==
    IF FlagGet(f, c) # 0 /\ bj = 0 THEN Min(FlagGet(f, c) - 1, g - c[1] - 1) ELSE bj

\* lines 187-188: the right-hand sides set for grid index c
EpsParams(c) == [o \in 1..(num_objfun - 1) |-> e[o][c[o] + 1]]

\* the keys beyond c only, c itself left unmarked
EarlyExitKeysBeyond(c, g) == { << c[1], i >> : i \in (c[2] + 1)..(g - 1) }

\* lines 195-196: the keys marked after a non-optimal solve at c
EarlyExitKeys(c, g) == { << c[1], i >> : i \in c[2]..(g - 1) }

\* the slack taken as never spanning a whole grid step
BypassCountNone(s, rng, i, g) == 0

\* lines 202-204: b[i] for the secondary objective with slack s[i]
BypassCount(s, rng, i, g) ==
    Trunc(RDiv(Round(s[i], 10), Rat(rng[i], g - 1)))

BypassCounts(s, rng, g) == [i \in 1..Len(rng) |-> BypassCount(s, rng, i, g)]

\* lines 206-207: the keys marked after a solve at c with counts b
BypassKeys(c, b) == { << c[1], i >> : i \in c[2]..(c[2] + b[2]) }

BypassFlags(f, c, b) == FlagSet(f, BypassKeys(c, b), b[1] + 1)

\* lines 215-219: the penalty subtracted from obj_list[1]() on recording
PenaltySubtracted(s, rng) == RMul(eps, SlackOverRange(s, rng, Len(rng)))

\* lines 211-224: the tuple appended to pareto_sols_temp
Candidate(x, s, rng) ==
    [o \in 1..Len(x) |->
        IF o = 1
        THEN Round(RSub(ObjValue(1, x, s, TRUE, rng), PenaltySubtracted(s, rng)), 2)
        ELSE Round(x[o], 2)]

\* the early exit taken without consulting self.early_exit
TakesEarlyExitUnconfigured(ee, status) == status # "optimal"

\* the condition of lines 193-194
TakesEarlyExit(ee, status) == ee /\ status # "optimal"

\* the condition of line 198, reached when that of lines 193-194 is false
TakesBypass(bc) == bc

Raise(st, name) == [st EXCEPT !.err = name]

\* the candidate appended only after an optimal solve
RecordOnlyOptimal(st, c) ==
    IF ~(st.vals.loaded /\ st.Slack.loaded)
    THEN Raise(st, "ValueError")
    ELSE [st EXCEPT
            !.pareto_sols_temp = IF st.result = "optimal"
                                 THEN Append(@, Candidate(st.vals.v, st.Slack.v, obj_range))
                                 ELSE @,
            !.bypass_jump = SkipAfterSolve(st.flag, c, st.bypass_jump, g_points),
            !.k = @ + 1]

\* lines 211-229: record the candidate, then set the skip count from the
\* flag of c; obj_list[1]() raises on variables without a value
Record(st, c) ==
    IF ~(st.vals.loaded /\ st.Slack.loaded)
    THEN Raise(st, "ValueError")
    ELSE [st EXCEPT
            !.pareto_sols_temp = Append(@, Candidate(st.vals.v, st.Slack.v, obj_range)),
            !.bypass_jump = SkipAfterSolve(st.flag, c, st.bypass_jump, g_points),
            !.k = @ + 1]

\* lines 193-207; c[1] of the code does not exist for a 1-tuple, and
\* round() raises on a Slack value of None
Prune(st, ee, bc, c) ==
    IF TakesEarlyExit(ee, st.result)
    THEN IF Len(c) < 2 THEN Raise(st, "IndexError")
         ELSE Record([st EXCEPT !.flag = FlagSet(@, EarlyExitKeys(c, g_points),
                                                 g_points - c[1])], c)
    ELSE IF TakesBypass(bc)
    THEN IF ~st.Slack.loaded THEN Raise(st, "TypeError")
         ELSE IF Len(c) < 2 THEN Raise(st, "IndexError")
         ELSE Record([st EXCEPT !.flag = BypassFlags(@, c,
                          BypassCounts(st.Slack.v, obj_range, g_points))], c)
    ELSE Record(st, c)

\* lines 190-191 once opt.solve has returned out
AfterSolve(st, ee, bc, c, out) ==
    IF out.raised
    THEN Raise([st EXCEPT !.log = Append(@, Solved("grid", c, st.k, st.active,
                                  NoAux, out, st.vals, st.Slack))],
               "SolverError")
    ELSE Prune([st EXCEPT !.models_solved = @ + 1, !.result = out.status,
                          !.vals = LoadVals(@, out), !.Slack = LoadSlack(@, out),
                          !.log = Append(@, Solved("grid", c, st.k, st.active,
                                  NoAux, out, LoadVals(st.vals, out),
                                  LoadSlack(st.Slack, out)))],
               ee, bc, c)

\* lines 183-190
SkipOrSolve(st, ee, bc, c, bj1) ==
    IF bj1 > 0
    THEN [st EXCEPT !.bypass_jump = bj1 - 1, !.k = @ + 1]
    ELSE AfterSolve([st EXCEPT !.bypass_jump = bj1, !.model_e = EpsParams(c),
                               !.active = Activate(@, 1), !.nsolve = @ + 1],
                    ee, bc, c,
                    SolveModel(Activate(st.active, 1), NoAux, TRUE, EpsParams(c),
                               obj_range, st.nsolve + 1))

\* One pass of the loop body of lines 177-231 on the explorer state st,
\* under the given early_exit and bypass_coefficient.
GridIter(st, ee, bc) ==
    SkipOrSolve(st, ee, bc, cp[st.k],
                SkipFromFlag(st.flag, cp[st.k], st.bypass_jump, g_points))

\* the explorer and model state the loop works on
Explorer ==
    [k |-> k, bypass_jump |-> bypass_jump, models_solved |-> models_solved,
     flag |-> flag, pareto_sols_temp |-> pareto_sols_temp, active |-> active,
     vals |-> vals, Slack |-> Slack, model_e |-> model_e, result |-> result,
     nsolve |-> nsolve, log |-> solve_log, err |-> "none"]

\* the reset that leaves self.flag as it is
ResetKeepingFlag(st) ==
    [st EXCEPT !.k = 1, !.bypass_jump = 0, !.models_solved = 0,
               !.pareto_sols_temp = << >>]

\* the explorer state of lines 168-175 on the model state of st
Reset(st) ==
    [st EXCEPT !.k = 1, !.bypass_jump = 0, !.models_solved = 0,
               !.flag = << >>, !.pareto_sols_temp = << >>]

\* lines 168-175
DiscoverParetoInit ==
    /\ pc = "discover_pareto"
    /\ pareto_sols_temp' = << >>
    /\ cp' = GridIndices(num_objfun, g_points)
    /\ bypass_jump' = 0
    /\ models_solved' = 0
    /\ flag' = << >>
    /\ k' = 1
    /\ entry' = Reset(Explorer)
    /\ pc' = "grid_loop"
    /\ UNCHANGED << error, inputs, modelState, payoffState, gridState,
                    unique_pareto_sols, exports >>

\* the loop left one entry before the end of self.cp
ExhaustedEarly(kk, n) == kk >= n

\* the for loop of line 177 ends once every entry of self.cp has been taken
Exhausted(kk, n) == kk > n

GridStepTo(st) ==
    /\ k' = st.k
    /\ bypass_jump' = st.bypass_jump
    /\ models_solved' = st.models_solved
    /\ flag' = st.flag
    /\ pareto_sols_temp' = st.pareto_sols_temp
    /\ active' = st.active
    /\ vals' = st.vals
    /\ Slack' = st.Slack
    /\ model_e' = st.model_e
    /\ result' = st.result
    /\ nsolve' = st.nsolve
    /\ solve_log' = st.log
    /\ error' = st.err
    /\ pc' = IF st.err # "none" THEN "error"
             ELSE IF Exhausted(st.k, Len(cp)) THEN "find_unique_sols"
             ELSE pc

\* one iteration of the for loop of line 177
GridStep ==
    /\ pc = "grid_loop"
    /\ GridStepTo(GridIter(Explorer, early_exit, bypass_coefficient))
    /\ UNCHANGED << inputs, aux_con, augmented, payoffState, gridState, cp,
                    entry, unique_pareto_sols, exports >>

\* the for loop of line 177 from explorer state st to its end, or to the
\* first exception
RECURSIVE RunLoop(_, _, _)
RunLoop(st, ee, bc) ==
    IF st.err # "none" \/ Exhausted(st.k, Len(cp)) THEN st
    ELSE RunLoop(GridIter(st, ee, bc), ee, bc)

----------------------------------------------------------------------------
(* find_unique_sols                                                        *)

\* list(set(self.pareto_sols_temp))
Unique(sols) == { sols[n] : n \in DOMAIN sols }

\* lines 234-244: deduplicate, then write the workbook
FindUniqueSols ==
    /\ pc = "find_unique_sols"
    /\ unique_pareto_sols' = Unique(pareto_sols_temp)
    /\ exports' = exports + 1
    /\ pc' = "done"
    /\ UNCHANGED << error, inputs, modelState, payoffState, gridState,
                    explorerState, entry >>

----------------------------------------------------------------------------
Next ==
    \/ Construct
    \/ PayoffDiag
    \/ PayoffOffDiag
    \/ FindObjfunRange
    \/ ConvertOptProb
    \/ DiscoverParetoInit
    \/ GridStep
    \/ FindUniqueSols

Spec == Init /\ [][Next]_vars

----------------------------------------------------------------------------
(* Properties                                                              *)

GridSize == g_points ^ (num_objfun - 1)

InLoop == k >= 1

LoopFinished == pc \in {"find_unique_sols", "done"}

\* C2: with early_exit and bypass_coefficient both disabled no grid index
\* is skipped: inside the loop every index taken so far has been solved, no
\* skip count is ever active, and when the loop has ended models_solved is
\* grid_points^(p-1).
C2_UnprunedSolvesAll ==
    (~early_exit /\ ~bypass_coefficient) =>
        /\ bypass_jump = 0
        /\ pc = "grid_loop" => models_solved = k - 1
        /\ LoopFinished => models_solved = GridSize /\ k = GridSize + 1

\* an unpruned run over a 3-objective grid that has ended, a non-optimal
\* solve included
C2_Witness ==
    /\ ~early_exit /\ ~bypass_coefficient
    /\ pc = "done"
    /\ num_objfun = 3
    /\ result # "optimal"
    /\ models_solved = GridSize

\* C4: a supplied nadir list whose length is not p-1 makes the constructor
\* raise before anything is solved: no payoff-table solve, no grid solve, no
\* export.
C4_NadirMismatchRejected ==
    (nadir_points.given /\ Len(nadir_points.pts) # num_objfun - 1) =>
        /\ pc \in {"init", "error"}
        /\ pc = "error" =>
              error = "Exception: Too many or too few nadir points provided"
        /\ nsolve = 0
        /\ models_solved = 0
        /\ exports = 0

\* the constructor has raised on a nadir list that is too long
C4_Witness ==
    /\ pc = "error"
    /\ nadir_points.given
    /\ Len(nadir_points.pts) > num_objfun - 1
    /\ nsolve = 0

AgreesWithUnpruned(un) ==
    /\ pc = "done"
    /\ unique_pareto_sols = Unique(un.pareto_sols_temp)
    /\ models_solved <= un.models_solved

\* C1: with a deterministic solver (no injected fault), a run with
\* early_exit and/or bypass_coefficient enabled ends with the same
\* deduplicated Pareto set as the run with both disabled, and with no more
\* grid solves, whenever that unpruned run completes.
C1_PrunedEqualsUnpruned ==
    ( /\ fault = NoFault
      /\ early_exit \/ bypass_coefficient
      /\ InLoop
      /\ pc \in {"done", "error"}
      /\ RunLoop(entry, FALSE, FALSE).err = "none" )
    => AgreesWithUnpruned(RunLoop(entry, FALSE, FALSE))

\* C3: whatever p >= 2 and the pruning flags, discover_pareto takes every
\* grid index and ends normally; the only exception that may end it is one
\* raised by the solver call itself.
C3_LoopEndsNormally ==
    /\ (pc = "error" /\ InLoop) => error = "SolverError"
    /\ LoopFinished => k = GridSize + 1

RangeKnown == obj_range # << >>

\* C5 as stated: a zero objective range is rejected before any solve is
\* performed.
C5_ZeroRangeBeforeAnySolve ==
    (RangeKnown /\ HasZeroRange(obj_range)) => nsolve = 0

\* C5 as the code has it: a zero range exists only once find_objfun_range
\* has run, after all p*p payoff-table solves; nothing checks for it, and
\* the run ends on the division by the range, in convert_opt_prob or when
\* the augmented objective first reaches the solver, with no grid solve
\* counted and nothing exported.
C5_ZeroRangeAfterPayoffTable ==
    (RangeKnown /\ HasZeroRange(obj_range)) =>
        /\ nsolve >= num_objfun * num_objfun
        /\ pc \in {"convert_opt_prob", "discover_pareto", "grid_loop", "error"}
        /\ pc = "error" => error \in {"ZeroDivisionError", "SolverError"}
        /\ models_solved = 0
        /\ exports = 0

\* the run has ended on the division by a zero range
C5_Witness ==
    /\ RangeKnown
    /\ HasZeroRange(obj_range)
    /\ pc = "error"
    /\ error = "ZeroDivisionError"
    /\ nsolve = num_objfun * num_objfun

BeforeLoop == pc \in {"payoff_diag", "payoff_offdiag", "find_objfun_range",
                      "convert_opt_prob", "discover_pareto"}

\* C6: a payoff-table solve that terminates non-optimally aborts the run:
\* while the constructor is between create_payoff_table and the grid loop
\* and has not raised, every solve so far has terminated optimally.
C6_PayoffFailureAborts ==
    BeforeLoop => result \in {"none", "optimal"}

\* C7: a non-optimal solve in the grid loop never aborts discover_pareto:
\* when the loop has raised something other than a solver exception, the
\* solve of that iteration had terminated optimally.
C7_NonOptimalGridSolveContinues ==
    (pc = "error" /\ InLoop /\ error # "SolverError") => result = "optimal"

StrictlyIncreasing(row) ==
    \A a \in DOMAIN row : \A b \in DOMAIN row : a < b => RLt(row[a], row[b])

\* C8: for a secondary objective whose payoff-table maximum exceeds the
\* chosen minimum, the grid row is strictly increasing, starts at the chosen
\* minimum and ends at the payoff-table column maximum.
C8_GridRowSpansMinToMax ==
    RangeKnown =>
        \A i \in 1..(num_objfun - 1) :
            RLt(ChosenMin(nadir_points, payoff_table, i),
                RMax(Column(payoff_table, i + 1)))
            => /\ StrictlyIncreasing(e[i])
               /\ e[i][1] = ChosenMin(nadir_points, payoff_table, i)
               /\ e[i][g_points] = RMax(Column(payoff_table, i + 1))

\* C10: the first component of a candidate recorded after an optimal solve
\* is the primary objective's own value at the solution, rounded to 2
\* decimals.
C10_RecordsTrueObjective ==
    ( /\ pc \in {"grid_loop", "find_unique_sols", "done"}
      /\ result = "optimal"
      /\ pareto_sols_temp # << >> )
    => pareto_sols_temp[Len(pareto_sols_temp)][1] = Round(vals.v[1], 2)

\* the solves of the off-diagonal pass recorded so far
OffDiagSolves == { n \in DOMAIN solve_log : solve_log[n].stage = "offdiag" }

\* the off-diagonal solves whose value has been stored in the table
StoredOffDiag ==
    { n \in OffDiagSolves :
          payoff_table[solve_log[n].at[1] + 1][solve_log[n].at[2] + 1] # Inf }

\* C11 as stated: entry [i,j], i # j, is the value of objective j read
\* after a solve in which objective i is the active objective and
\* objective j is pinned to its own diagonal optimum.
C11_OffDiagActiveIPinnedJ ==
    \A n \in StoredOffDiag :
        LET i == solve_log[n].at[1] + 1
            j == solve_log[n].at[2] + 1
        IN  /\ solve_log[n].active = {i}
            /\ solve_log[n].aux = [on |-> TRUE, obj |-> j, val |-> payoff_table[j][j]]
            /\ payoff_table[i][j] = Round(solve_log[n].x.v[j], 10)

\* C11 as the code has it: entry [i,j], i # j, is the value of objective j
\* (rounded to 10 decimals) read after a solve in which objective j is the
\* active objective and objective i is pinned to its diagonal optimum
\* payoff_table[i,i] by the auxiliary equality constraint.
C11_OffDiagActiveJPinnedI ==
    \A n \in StoredOffDiag :
        LET i == solve_log[n].at[1] + 1
            j == solve_log[n].at[2] + 1
        IN  /\ i # j
            /\ solve_log[n].active = {j}
            /\ solve_log[n].aux = [on |-> TRUE, obj |-> i, val |-> payoff_table[i][i]]
            /\ payoff_table[i][j] = Round(solve_log[n].x.v[j], 10)

\* a complete 3x3 table whose entry [0,1] differs from the diagonal optimum
\* of objective 2
C11_Witness ==
    /\ pc = "find_objfun_range"
    /\ num_objfun = 3
    /\ Cardinality(StoredOffDiag) = 6
    /\ payoff_table[1][2] # payoff_table[2][2]

\* the solves of the grid loop recorded so far
GridSolves == { n \in DOMAIN solve_log : solve_log[n].stage = "grid" }

\* the grid solves were made at the entries of self.cp, in the order of
\* self.cp, each with the breakpoints its index selects: component m of
\* the index (counted from 1) selects the breakpoint of row m of self.e
VisitsInListOrder ==
    /\ \A n \in GridSolves :
          /\ solve_log[n].pos \in DOMAIN cp
          /\ solve_log[n].at = cp[solve_log[n].pos]
    /\ \A n \in GridSolves : \A m \in GridSolves :
          n < m => solve_log[n].pos < solve_log[m].pos
    /\ (GridSolves # {} /\ pc = "grid_loop") =>
          model_e = [o \in 1..(num_objfun - 1) |->
                        e[o][solve_log[Len(solve_log)].at[o] + 1]]

\* C12 as stated: self.cp lists the grid_points^(p-1) indices with the
\* first component changing slowest and later components fastest, and the
\* loop solves along that list.
C12_FirstComponentSlowest ==
    cp # << >> =>
        /\ Len(cp) = GridSize
        /\ \A q \in DOMAIN cp : \A m \in 1..(num_objfun - 1) :
              cp[q][m] = ((q - 1) \div (g_points ^ (num_objfun - 1 - m))) % g_points
        /\ VisitsInListOrder

\* C12 as the code has it: self.cp lists the grid_points^(p-1) indices with
\* the first component changing fastest and the last component slowest
\* (the tuples of itertools.product are reversed), and the loop solves along
\* that list, component k of the index (counted from 0) selecting the
\* breakpoint of secondary objective k+1.
C12_FirstComponentFastest ==
    cp # << >> =>
        /\ Len(cp) = GridSize
        /\ \A q \in DOMAIN cp : \A m \in 1..(num_objfun - 1) :
              cp[q][m] = ((q - 1) \div (g_points ^ (m - 1))) % g_points
        /\ VisitsInListOrder

\* a 3-objective loop that has gone through the first sweep of the first
\* component and has solved the first index of the second sweep
C12_Witness ==
    /\ pc = "grid_loop"
    /\ num_objfun = 3
    /\ k = g_points + 2
    /\ \E n \in GridSolves : solve_log[n].at = << 0, 1 >>

PositiveRanges == RangeKnown /\ \A o \in DOMAIN obj_range : obj_range[o] > 0

\* the positions left in the sweep of the first (fastest) component when
\* the loop is about to take entry kk of self.cp: none once the list is
\* exhausted or when entry kk opens a new sweep
LeftInSweep(kk) ==
    IF kk > Len(cp) \/ cp[kk][1] = 0 THEN 0 ELSE g_points - cp[kk][1]

\* C13: with positive objective ranges, between two iterations of the grid
\* loop bypass_jump is non-negative and at most the number of positions
\* left in the current sweep of the fastest-varying component; it is 0
\* when the next index is the first of a sweep and when the loop has ended.
C13_SkipCountWithinSweep ==
    (pc \in {"grid_loop", "find_unique_sols", "done"} /\ PositiveRanges) =>
        /\ bypass_jump >= 0
        /\ bypass_jump <= LeftInSweep(k)

\* a skip count of two or more is active inside a sweep
C13_Witness ==
    /\ pc = "grid_loop"
    /\ PositiveRanges
    /\ bypass_jump >= 2
    /\ bypass_jump = LeftInSweep(k)

\* grid solve b was made later in the sweep of grid solve a: same second
\* (slower) component, greater first (fastest) component
LaterInSweep(a, b) ==
    /\ a < b
    /\ solve_log[b].at[2] = solve_log[a].at[2]
    /\ solve_log[b].at[1] > solve_log[a].at[1]

\* C14: for 3 objectives with early_exit enabled, once a grid solve at
\* index c has terminated non-optimally no index later in the same sweep
\* (same slower component, greater fastest component) is solved.
C14_EarlyExitSkipsRestOfSweep ==
    (num_objfun = 3 /\ early_exit) =>
        \A a \in GridSolves : \A b \in GridSolves :
            solve_log[a].status # "optimal" => ~LaterInSweep(a, b)

\* a non-optimal solve before the end of a sweep, the rest of the sweep
\* skipped and the next sweep begun with a solve
C14_Witness ==
    /\ num_objfun = 3
    /\ early_exit
    /\ \E a \in GridSolves : \E b \in GridSolves :
          /\ a < b
          /\ solve_log[a].status \notin {"optimal", "error"}
          /\ solve_log[a].at[1] < g_points - 1
          /\ solve_log[b].at[2] = solve_log[a].at[2] + 1

\* this step is an iteration of the grid loop whose solve returned a
\* termination status other than optimal
NonOptimalGridSolve ==
    /\ pc = "grid_loop"
    /\ models_solved' = models_solved + 1
    /\ result' # "optimal"

\* C15: a grid solve that terminates non-optimally never leads to the
\* Slack values being read for the bypass counts nor to a bypass entry
\* being written: whatever early_exit is, the only entries of self.flag
\* such an iteration may write are the early-exit ones (value
\* grid_points - c[0], under early_exit), and it does not fail on reading
\* a Slack value.
C15_BypassOnlyAfterOptimal ==
    [][ NonOptimalGridSolve =>
          /\ error' # "TypeError"
          /\ \A key \in DOMAIN flag' :
                (key \notin DOMAIN flag \/ flag'[key] # flag[key]) =>
                    /\ early_exit
                    /\ flag'[key] = g_points - cp[k][1] ]_vars

\* floor of a rational with positive denominator
Floor(x) == x[1] \div x[2]

\* for the grid solve n: min(floor(s / step), positions remaining after c
\* in the sweep of c[0]), s being the Slack of the first secondary
\* objective after the solve and step that objective's grid spacing
SkipsDue(n) ==
    Min(Floor(RDiv(solve_log[n].s.v[1], Rat(obj_range[1], g_points - 1))),
        g_points - 1 - solve_log[n].at[1])

\* C16: for 3 objectives with bypass_coefficient enabled, after an optimal
\* solve at index c with slack s on the fastest-varying secondary
\* objective, the next min(floor(s/step), positions remaining after c in
\* that dimension) grid indices are skipped: none of them is ever solved,
\* and while the loop is among them the skip count is what is left of that
\* number.
C16_BypassSkipsFloorOfSlack ==
    (num_objfun = 3 /\ bypass_coefficient) =>
        \A n \in GridSolves :
            solve_log[n].status = "optimal" =>
                /\ \A m \in GridSolves :
                      solve_log[m].pos \notin
                          (solve_log[n].pos + 1)..(solve_log[n].pos + SkipsDue(n))
                /\ (pc = "grid_loop" /\ n = Len(solve_log)
                      /\ k <= solve_log[n].pos + SkipsDue(n) + 1)
                   => bypass_jump = solve_log[n].pos + SkipsDue(n) + 1 - k

\* an optimal solve whose slack spans two grid steps with two positions
\* left in the sweep, and the loop has moved past the skipped indices
C16_Witness ==
    /\ num_objfun = 3
    /\ bypass_coefficient
    /\ pc = "grid_loop"
    /\ \E n \in GridSolves :
          /\ solve_log[n].status = "optimal"
          /\ SkipsDue(n) = 2
          /\ k > solve_log[n].pos + 2

PayoffSolves == { n \in DOMAIN solve_log : solve_log[n].stage \in {"diag", "offdiag"} }

\* create_payoff_table has returned and the grid loop has not begun
AfterPayoffTable == pc \in {"find_objfun_range", "convert_opt_prob", "discover_pareto"}

\* C17: on a model whose objectives are all inactive on entry, every solve
\* of create_payoff_table runs with exactly one objective active, the one
\* being optimised (that of column j); the auxiliary constraint is on the
\* model during the off-diagonal solves and only then; and when
\* create_payoff_table has returned no objective is active and no auxiliary
\* constraint is left.
C17_PayoffActivationDiscipline ==
    /\ \A n \in PayoffSolves :
          /\ solve_log[n].active = { solve_log[n].at[2] + 1 }
          /\ solve_log[n].aux.on <=> solve_log[n].stage = "offdiag"
    /\ AfterPayoffTable => active = {} /\ aux_con = NoAux

\* create_payoff_table has just returned from its 9 solves on 3 objectives
C17_Witness ==
    /\ pc = "find_objfun_range"
    /\ num_objfun = 3
    /\ Cardinality(PayoffSolves) = 9
    /\ Cardinality({ n \in PayoffSolves : solve_log[n].aux.on }) = 6

\* how many times candidate c occurs in the list sols
Occurrences(sols, c) == Cardinality({ n \in DOMAIN sols : sols[n] = c })

SameMultiset(a, b) ==
    \A c \in Unique(a) \cup Unique(b) : Occurrences(a, c) = Occurrences(b, c)

\* the run st of discover_pareto ended normally with the candidates and
\* the solve count this run has
RepeatsThisRun(st) ==
    /\ st.err = "none"
    /\ SameMultiset(st.pareto_sols_temp, pareto_sols_temp)
    /\ st.models_solved = models_solved

\* C18: with a deterministic solver (no injected fault), when
\* discover_pareto has returned, calling it again on the model as the first
\* run left it (variable and Slack values, epsilon parameters, active
\* objective) starts from the reset explorer state and records the same
\* multiset of candidates with the same number of solves.
C18_SecondRunRepeatsFirst ==
    (fault = NoFault /\ LoopFinished) =>
        RepeatsThisRun(RunLoop(Reset(Explorer), early_exit, bypass_coefficient))

\* a finished pruned run on 3 objectives that has left skip entries, a
\* non-optimal last status and values on the model
C18_Witness ==
    /\ fault = NoFault
    /\ pc = "find_unique_sols"
    /\ num_objfun = 3
    /\ flag # << >>
    /\ models_solved < GridSize
    /\ result # "optimal"
    /\ Slack.loaded

BetweenIterations == pc \in {"grid_loop", "find_unique_sols", "done"}

\* C19: at the end of every iteration of the grid loop the number of
\* recorded candidates equals models_solved, which is the number of grid
\* indices solved; the remaining indices taken so far were skipped and
\* appended nothing.  A solve that terminated non-optimally has its
\* candidate like any other.
C19_OneCandidatePerSolve ==
    BetweenIterations =>
        /\ Len(pareto_sols_temp) = models_solved
        /\ models_solved = Cardinality(GridSolves)
        /\ models_solved <= k - 1

\* a finished run in which a non-optimal solve was recorded and some
\* indices were skipped
C19_Witness ==
    /\ pc = "find_unique_sols"
    /\ \E n \in GridSolves : solve_log[n].status # "optimal"
    /\ Len(pareto_sols_temp) = models_solved
    /\ models_solved < k - 1
    /\ models_solved >= 2

\* C20: for more than 3 objectives no grid index is ever skipped, whatever
\* the pruning flags and the solver's outcomes: the keys of self.flag have
\* 2 components and so are never a grid index of self.cp, bypass_jump stays
\* 0, every index taken is solved, and a loop that has ended has solved
\* grid_points^(p-1) models.
C20_NoSkipBeyondThreeObjectives ==
    num_objfun > 3 =>
        /\ bypass_jump = 0
        /\ \A key \in DOMAIN flag : Len(key) = 2
        /\ \A q \in DOMAIN cp : cp[q] \notin DOMAIN flag
        /\ pc = "grid_loop" => models_solved = k - 1
        /\ LoopFinished => models_solved = GridSize

\* a finished 4-objective run with both kinds of pruning entries written:
\* a non-optimal solve under early_exit and skip entries in self.flag
C20_Witness ==
    /\ num_objfun = 4
    /\ pc = "done"
    /\ early_exit
    /\ flag # << >>
    /\ \E n \in GridSolves : solve_log[n].status # "optimal"
    /\ models_solved = GridSize

====
